---- MODULE Spec2Model ----
(***************************************************************************)
(* Model of models/text_detection_db/demo.py: the command line of the      *)
(* scene-text-detection demo, the rescaling of the detector's boxes to the *)
(* original image, the renderer `visualize`, and the two flows of the      *)
(* runner (one image, or a capture loop).                                  *)
(*                                                                         *)
(* Numbers.  Python's `/` is a division of doubles.  A scale factor is the  *)
(* double nearest to a ratio of two sizes; the model holds it as that      *)
(* ratio, [n, d] in lowest terms, and computes what an int32 element keeps *)
(* of the double product of a coordinate and the factor bit for bit, with  *)
(* integer arithmetic on the 53-bit significands.                          *)
(*                                                                         *)
(* Objects.  Images are objects: `heap` maps a reference to the image it   *)
(* holds, and the program's variables hold references.  One reference per  *)
(* allocation site is enough: when a site allocates again, the object it   *)
(* allocated before is no longer referenced by any variable.               *)
(***************************************************************************)
EXTENDS Integers, Sequences, FiniteSets

(* ------------------------------ bounds -------------------------------- *)

\* The capture device delivers frames without end.  The frames counted, with
\* the steps taken for them, are the last MaxFrames ones, and a frame's
\* number is its place in a cycle of that length.
MaxFrames == 2
\* Boxes the detector returns at most for one image.
MaxBoxes == 2

(* ----------------------------- rationals ------------------------------ *)

Abs(x) == IF x < 0 THEN -x ELSE x

RECURSIVE GCD(_, _)
GCD(a, b) == IF b = 0 THEN a ELSE GCD(b, a % b)

\* The rational n/d (d # 0) in lowest terms with a positive denominator.
Rat(n, d) ==
    LET g == GCD(Abs(n), Abs(d))
        s == IF d < 0 THEN -1 ELSE 1
    IN  [n |-> (s * n) \div g, d |-> (s * d) \div g]

IntToRat(x) == [n |-> x, d |-> 1]

RECURSIVE Pow2(_)
Pow2(k) == IF k <= 0 THEN 1 ELSE 2 * Pow2(k - 1)

\* The exponent f of the ratio n / d (n, d > 0): 2^f <= n / d < 2^(f + 1).
RECURSIVE FloorLog2(_, _)
FloorLog2(n, d) ==
    IF n <= 0 THEN 0
    ELSE IF n >= 2 * d THEN FloorLog2(n, 2 * d) + 1
    ELSE IF n < d THEN FloorLog2(2 * n, d) - 1
    ELSE 0

\* (n * 2^k) mod d, ten doublings at a time.
RECURSIVE RemPow2(_, _, _)
RemPow2(n, k, d) ==
    IF k <= 10 THEN (n * Pow2(k)) % d
    ELSE RemPow2((n * Pow2(10)) % d, k - 10, d)

\* The double nearest to n / d (n, d > 0) is M / 2^k, with M the integer
\* nearest to n * 2^k / d and k = 52 - f, so that M has 53 bits.  When the
\* division rounds down, the double is r / (d * 2^k) below n / d, r being
\* the remainder of n * 2^k by d; the result is that r, or 0 when the
\* division is exact or rounds up.
RoundedBelow(n, d) ==
    LET r == RemPow2(n, 52 - FloorLog2(n, d), d)
    IN  IF 2 * r < d THEN r ELSE 0

\* The largest e with 2^e < m (m >= 1): the doubles just below m are
\* 2^(e - 52) apart.
ExpBelow(m) ==
    LET e == FloorLog2(m, 1) IN IF Pow2(e) = m THEN e - 1 ELSE e

\* The nearest integer, ties to the even one ('{:.2f}' of an exact value).
RoundHalfEven(r) ==
    LET fl   == r.n \div r.d
        rem2 == 2 * (r.n - fl * r.d)
    IN  IF rem2 < r.d THEN fl
        ELSE IF rem2 > r.d THEN fl + 1
        ELSE IF fl % 2 = 0 THEN fl ELSE fl + 1

(* --------------------------- command line ----------------------------- *)

\* A variable that holds no reference (Python's None).
None == "None"

\* An option's values on the command line: <<>> when the option is omitted,
\* <<v>> when it is given with the value v.  A file name and a --save value
\* are TLA+ strings; a --vis value, which the program reads letter by
\* letter, is the sequence of its characters ("False", "TRUE", "maybe"); an
\* integer option's value is the sequence of its decimal digits.
InputTokens  == {<<>>, <<"text.jpg">>, <<"missing.jpg">>}
SaveTokens   == {<<>>, <<"True">>, <<"False">>, <<"">>}
VisTokens    ==
    {<<>>, <<<<"F", "a", "l", "s", "e">>>>, <<<<"T", "R", "U", "E">>>>,
     <<<<"m", "a", "y", "b", "e">>>>}
WidthTokens  == {<<>>, <<<<1, 4, 7, 2>>>>}
HeightTokens == {<<>>, <<<<1, 4, 7, 2>>>>}

\* The paths cv.imread can decode.
Decodable == {"text.jpg"}

\* Sizes (width, height) of the images a file or the camera delivers.
ImageSizes == {<<1472, 1472>>, <<104, 368>>, <<736, 736>>}

\* The cased letters of the strings the model reads, and their lower case.
UpperCase ==
    <<"A", "B", "C", "D", "E", "F", "G", "H", "I", "J", "K", "L", "M", "N",
      "O", "P", "Q", "R", "S", "T", "U", "V", "W", "X", "Y", "Z">>
LowerCase ==
    <<"a", "b", "c", "d", "e", "f", "g", "h", "i", "j", "k", "l", "m", "n",
      "o", "p", "q", "r", "s", "t", "u", "v", "w", "x", "y", "z">>

\* One character in lower case; a character that has none is kept.
LowerChar(c) ==
    IF \E i \in DOMAIN UpperCase : UpperCase[i] = c
    THEN LowerCase[CHOOSE i \in DOMAIN UpperCase : UpperCase[i] = c]
    ELSE c

\* v.lower(): every character in lower case.
Lower(v) == [i \in 1..Len(v) |-> LowerChar(v[i])]

\* str2bool: [ok |-> TRUE, value |-> b], or ok = FALSE for NotImplementedError.
str2bool(v) ==
    IF Lower(v) \in {<<"o", "n">>, <<"y", "e", "s">>,
                     <<"t", "r", "u", "e">>, <<"y">>, <<"t">>}
    THEN [ok |-> TRUE, value |-> TRUE]
    ELSE IF Lower(v) \in {<<"o", "f", "f">>, <<"n", "o">>,
                          <<"f", "a", "l", "s", "e">>, <<"n">>, <<"f">>}
    THEN [ok |-> TRUE, value |-> FALSE]
    ELSE [ok |-> FALSE, value |-> FALSE]

\* int() of a sequence of decimal digits.
RECURSIVE ParseInt(_)
ParseInt(ds) ==
    IF ds = <<>> THEN 0
    ELSE 10 * ParseInt(SubSeq(ds, 1, Len(ds) - 1)) + ds[Len(ds)]

\* The default of --width and of --height.
DefaultSize == 736

\* Python values of two types in one slot: the bool False or a str.
PyBool(b) == [t |-> "bool", b |-> b, s |-> ""]
PyStr(s)  == [t |-> "str", b |-> FALSE, s |-> s]

\* Python's truth value of a bool or a str (`if args.save:`).
Truthy(x) == IF x.t = "bool" THEN x.b ELSE x.s # ""

\* parser.parse_args(): the namespace, given that --vis converts.
\* --save is type=str, default=False; --vis is type=str2bool, default=True.
ParsedArgs(av) ==
    [input  |-> IF av.input = <<>> THEN None ELSE av.input[1],
     width  |-> IF av.width = <<>> THEN DefaultSize ELSE ParseInt(av.width[1]),
     height |-> IF av.height = <<>> THEN DefaultSize ELSE ParseInt(av.height[1]),
     save   |-> IF av.save = <<>> THEN PyBool(FALSE) ELSE PyStr(av.save[1]),
     vis    |-> IF av.vis = <<>> THEN TRUE ELSE str2bool(av.vis[1]).value]

NoArgs ==
    [input |-> None, width |-> 0, height |-> 0, save |-> PyBool(FALSE),
     vis |-> FALSE]

(* ------------------------------ images ------------------------------- *)

\* What an image shows: the file it was decoded from, or the camera and the
\* number of the frame.
Content(source, index) == [source |-> source, index |-> index]

\* An image: its size, what it shows and what has been drawn on it, in order.
Image(w, h, content) == [w |-> w, h |-> h, content |-> content, marks |-> <<>>]

\* What a reference holds before its site has allocated.
NoObject == Image(0, 0, Content(None, 0))

\* The allocation sites: cv.imread / cap.read, cv.resize, image.copy().
Refs == {"read", "resized", "rendered"}

\* cv.resize(img, [width, height]): a new image of that size, the input kept.
Resize(img, width, height) == [img EXCEPT !.w = width, !.h = height]

(* ----------------------------- detector ------------------------------- *)

\* The k-th box of a detection, 4 corners (x, y) in order: an axis-aligned
\* square for odd k, a slanted quadrilateral with odd, negative and
\* out-of-range coordinates for even k.
BoxOf(k) ==
    IF k % 2 = 1
    THEN <<<<100 * k, 100 * k>>, <<200 * k, 100 * k>>,
           <<200 * k, 200 * k>>, <<100 * k, 200 * k>>>>
    ELSE <<<<-5, 7 * k>>, <<828, 15>>, <<799, 53 + k>>, <<-3, 45>>>>

\* Its confidence, in hundredths.
ScoreOf(k) == 100 - 10 * k

\* What model.infer may return for one image: (boxes, scores).  The boxes
\* are int32 arrays, which is what the renderer's cv.polylines takes.
DetectorOutputs ==
    {[boxes  |-> [i \in 1..n |-> BoxOf(i)],
      scores |-> [i \in 1..n |-> ScoreOf(i)]] : n \in 0..MaxBoxes}

NoResults == [boxes |-> <<>>, scores |-> <<>>]

(* ----------------------------- rescaling ------------------------------ *)

\* scaleWidth = original_w / args.width, scaleHeight = original_h /
\* args.height: the double nearest to the ratio n / d, held as the ratio
\* with the double's exponent and how far below the ratio it is.
ScaleOf(original, size) ==
    LET r == Rat(original, size)
    IN  [n |-> r.n, d |-> r.d, exp |-> FloorLog2(r.n, r.d),
         below |-> RoundedBelow(r.n, r.d)]

\* A scale factor not computed yet.
NoScale == [n |-> 0, d |-> 1, exp |-> 0, below |-> 0]

\* results[0][i][j][k] = x * scale, for an int32 element x and the double
\* nearest to the ratio sc: the double product, of which the int32 element
\* keeps the integer part, towards zero.  The product of the magnitudes is
\* within a rounding of q = |x| * sc.n / sc.d.  When q is no whole number its
\* integer part is that of the double too.  When q is a whole number and the
\* scale was rounded down, the exact product of |x| and the double is below q
\* by |x| * sc.below / (sc.d * 2^k), k = 52 - sc.exp; it rounds to the double
\* before q, and q - 1 is kept, when that is more than half the gap
\* 2^(e - 52) below q.
StoreProduct(x, sc) ==
    LET ax    == Abs(x)
        P     == ax * sc.n
        q     == P \div sc.d
        t     == ExpBelow(q) - sc.exp - 1
        short == /\ q > 0
                 /\ P % sc.d = 0
                 /\ sc.below > 0
                 /\ ax * sc.below * Pow2(IF t < 0 THEN -t ELSE 0)
                       > sc.d * Pow2(IF t > 0 THEN t ELSE 0)
        m     == IF short THEN q - 1 ELSE q
    IN  IF x < 0 THEN -m ELSE m

\* The slip of scaling both coordinates by the same factor.
ScalePointOneFactor(p, sw, sh) ==
    <<StoreProduct(p[1], sw), StoreProduct(p[2], sw)>>

\* One corner: box = results[0][i][j] is the corner itself, not a copy;
\* element 0 is assigned first, which leaves element 1, read next, as it was.
ScalePoint(p, sw, sh) ==
    <<StoreProduct(p[1], sw), StoreProduct(p[2], sh)>>

\* The slip of a loop that stops one box early.
RescaleSkipsLast(res, sw, sh) ==
    [res EXCEPT !.boxes =
        [i \in 1..Len(res.boxes) |->
            IF i = Len(res.boxes) THEN res.boxes[i]
            ELSE [j \in 1..4 |-> ScalePoint(res.boxes[i][j], sw, sh)]]]

\* The loop over range(len(results[0])) and range(4), in place: results[1],
\* the scores, is not touched.
Rescale(res, sw, sh) ==
    [res EXCEPT !.boxes =
        [i \in 1..Len(res.boxes) |->
            [j \in 1..4 |-> ScalePoint(res.boxes[i][j], sw, sh)]]]

(* ------------------------------ renderer ------------------------------ *)

\* 'FPS: {:.2f}'.format(fps): the value in hundredths.
FormatFps(fps) ==
    [prefix     |-> "FPS: ",
     hundredths |-> RoundHalfEven([n |-> fps.n * 100, d |-> fps.d])]

PutText(img, fps) ==
    [img EXCEPT !.marks = Append(@,
        [op |-> "putText", text |-> FormatFps(fps), org |-> <<0, 15>>,
         color |-> <<0, 0, 255>>])]

\* cv.polylines draws through integer points; the points are recorded as
\* they are handed over.
Polylines(img, pts) ==
    [img EXCEPT !.marks = Append(@,
        [op |-> "polylines", pts |-> pts, isClosed |-> TRUE,
         color |-> <<0, 255, 0>>, thickness |-> 2])]

\* The slip of drawing on the image itself (output = image, no copy).
visualizeInPlace(hp, image, res, fps) ==
    LET output == image
        texted == IF fps # <<>> THEN PutText(hp[image], fps[1]) ELSE hp[image]
    IN  [heap   |-> [hp EXCEPT ![output] = Polylines(texted, res.boxes)],
         output |-> output]

\* visualize(image, results, fps=...): hp is the heap, image a reference, fps
\* <<>> for None or <<value>>.  The heap after the call and the reference
\* returned.
visualize(hp, image, res, fps) ==
    LET output == "rendered"
        copied == hp[image]
        texted == IF fps # <<>> THEN PutText(copied, fps[1]) ELSE copied
    IN  [heap   |-> [hp EXCEPT ![output] = Polylines(texted, res.boxes)],
         output |-> output]

(* ------------------------------- state -------------------------------- *)

VARIABLES
    argv,            \* the command line
    pc,              \* the statement the program is at
    error,           \* the exception that ended the run, or None
    args,            \* parser.parse_args()
    model,           \* the DB instance
    heap,            \* the image each reference holds
    original_image,  \* a reference, or None
    image,           \* image mode: the resized image (a reference)
    frame,           \* stream mode: the resized frame (a reference)
    scaleWidth, scaleHeight,
    results,         \* what model.infer returned, scaled in place later
    tm,              \* cv.TickMeter: calls counted and milliseconds summed
    cap,             \* cv.VideoCapture: the frames read, of those counted
    window,          \* the window on screen: its title and what it shows
    file,            \* result.jpg: the image written, or NoObject
    stdout,          \* the lines printed
    keyPending,      \* a key was pressed and no waitKey has returned it yet
    hist             \* history, read by the properties only

vars == <<argv, pc, error, args, model, heap, original_image, image, frame,
          scaleWidth, scaleHeight, results, tm, cap, window, file, stdout,
          keyPending, hist>>

\* Milliseconds one model.infer call may take.
Durations == {20, 50}

NoWindow == [title |-> None, shown |-> NoObject]

NoHist ==
    [acquired   |-> NoObject,   \* the image as imread / cap.read delivered it
     inferInput |-> NoObject,   \* the image model.infer was called with
     detected   |-> NoResults,  \* what that call returned
     renderIn   |-> NoObject,   \* visualize's input image as it was at the call
     renderRef  |-> None,       \* the reference visualize was called with
     nRead |-> 0, nInfer |-> 0, nRescale |-> 0, nRender |-> 0, nShow |-> 0,
     nWrite |-> 0,              \* cv.imwrite calls
     failed |-> FALSE,          \* cap.read() returned no frame
     key    |-> "none"]         \* "poll" / "wait": the waitKey that got a key

\* The command lines the program is started on.
CommandLines ==
    [input : InputTokens, save : SaveTokens, vis : VisTokens,
     width : WidthTokens, height : HeightTokens]

\* Command lines without --input, for stream mode: no option at all; the
\* model's size given; --save True --vis False; a --vis value str2bool
\* does not know.
StreamCommandLines ==
    {[input |-> <<>>, save |-> <<>>, vis |-> <<>>, width |-> <<>>,
      height |-> <<>>],
     [input |-> <<>>, save |-> <<>>, vis |-> <<>>,
      width |-> <<<<1, 4, 7, 2>>>>, height |-> <<<<1, 4, 7, 2>>>>],
     [input |-> <<>>, save |-> <<"True">>, vis |-> <<<<"F", "a", "l", "s", "e">>>>,
      width |-> <<>>, height |-> <<>>],
     [input |-> <<>>, save |-> <<>>, vis |-> <<<<"m", "a", "y", "b", "e">>>>,
      width |-> <<>>, height |-> <<>>]}

\* The state when the program starts on one of the command lines in cls.
InitOn(cls) ==
    /\ argv \in cls
    /\ pc = "start"
    /\ error = None
    /\ args = NoArgs
    /\ model = [inputSize |-> <<0, 0>>, name |-> None]
    /\ heap = [r \in Refs |-> NoObject]
    /\ original_image = None
    /\ image = None
    /\ frame = None
    /\ scaleWidth = NoScale
    /\ scaleHeight = NoScale
    /\ results = NoResults
    /\ tm = [counter |-> 0, sumTime |-> 0]
    /\ cap = [opened |-> FALSE, read |-> 0]
    /\ window = NoWindow
    /\ file = NoObject
    /\ stdout = <<>>
    /\ keyPending = FALSE
    /\ hist = NoHist

Init == InitOn(CommandLines)

StreamInit == InitOn(StreamCommandLines)

(* --------------------------- start of the run -------------------------- *)

\* The line printed when the OpenCV build has no TIM-VX backend.
TimVXWarning ==
    [line |-> "This version of OpenCV does not support TIM-VX and NPU. Visit https://github.com/opencv/opencv/wiki/TIM-VX-Backend-For-Running-OpenCV-On-NPU for more information."]

\* try: backends += [cv.dnn.DNN_BACKEND_TIMVX] ... except: print(...).  The
\* OpenCV build has the TIM-VX backend and the NPU target, or it has not and
\* the line is printed.  The lists feed the help text and the defaults of
\* --backend and --target, their first elements on either build.
TryTimVX ==
    /\ pc = "start"
    /\ \E supported \in BOOLEAN :
          stdout' = IF supported THEN stdout ELSE Append(stdout, TimVXWarning)
    /\ pc' = "parse"
    /\ UNCHANGED <<argv, error, args, model, heap, original_image, image, frame,
                   scaleWidth, scaleHeight, results, tm, cap, window, file,
                   keyPending, hist>>

\* args = parser.parse_args(): a --vis value str2bool does not know raises
\* NotImplementedError, which argparse does not catch.
ParseArgs ==
    /\ pc = "parse"
    /\ IF argv.vis # <<>> /\ ~str2bool(argv.vis[1]).ok
       THEN /\ pc' = "error"
            /\ error' = "NotImplementedError"
            /\ args' = args
       ELSE /\ pc' = "main"
            /\ error' = error
            /\ args' = ParsedArgs(argv)
    /\ UNCHANGED <<argv, model, heap, original_image, image, frame, scaleWidth,
                   scaleHeight, results, tm, cap, window, file, stdout,
                   keyPending, hist>>

\* model = DB(..., inputSize=[args.width, args.height], ...), then the branch
\* on args.input.
InstantiateDB ==
    /\ pc = "main"
    /\ model' = [inputSize |-> <<args.width, args.height>>, name |-> "DB"]
    /\ pc' = IF args.input # None THEN "imread" ELSE "open"
    /\ UNCHANGED <<argv, error, args, heap, original_image, image, frame,
                   scaleWidth, scaleHeight, results, tm, cap, window, file,
                   stdout, keyPending, hist>>

(* ------------------------------ image mode ---------------------------- *)

\* original_image = cv.imread(args.input): None when the path does not
\* resolve to a decodable image; no exception is raised here.
Imread ==
    /\ pc = "imread"
    /\ IF args.input \in Decodable
       THEN \E sz \in ImageSizes :
              LET img == Image(sz[1], sz[2], Content(args.input, 0))
              IN  /\ heap' = [heap EXCEPT !["read"] = img]
                  /\ original_image' = "read"
                  /\ hist' = [hist EXCEPT !.acquired = img, !.nRead = @ + 1]
       ELSE /\ original_image' = None
            /\ UNCHANGED <<heap, hist>>
    /\ pc' = "prepare"
    /\ UNCHANGED <<argv, error, args, model, image, frame, scaleWidth,
                   scaleHeight, results, tm, cap, window, file, stdout,
                   keyPending>>

\* The slip of a guard that ends the run quietly when there is no image.
ImagePrepareQuiet ==
    /\ pc = "prepare"
    /\ IF original_image = None
       THEN /\ pc' = "done"
            /\ UNCHANGED <<error, heap, image, scaleWidth, scaleHeight>>
       ELSE LET original_w == heap[original_image].w
                original_h == heap[original_image].h
            IN  /\ scaleHeight' = ScaleOf(original_h, args.height)
                /\ scaleWidth' = ScaleOf(original_w, args.width)
                /\ image' = "resized"
                /\ heap' = [heap EXCEPT !["resized"] =
                              Resize(heap[original_image], args.width, args.height)]
                /\ pc' = "infer"
                /\ error' = error
    /\ UNCHANGED <<argv, args, model, original_image, frame, results, tm, cap,
                   window, file, stdout, keyPending, hist>>

\* original_w, original_h = the image's shape (AttributeError on None), the
\* two scale factors, and image = cv.resize(original_image, [width, height]).
ImagePrepare ==
    /\ pc = "prepare"
    /\ IF original_image = None
       THEN /\ pc' = "error"
            /\ error' = "AttributeError"
            /\ UNCHANGED <<heap, image, scaleWidth, scaleHeight>>
       ELSE LET original_w == heap[original_image].w
                original_h == heap[original_image].h
            IN  /\ scaleHeight' = ScaleOf(original_h, args.height)
                /\ scaleWidth' = ScaleOf(original_w, args.width)
                /\ image' = "resized"
                /\ heap' = [heap EXCEPT !["resized"] =
                              Resize(heap[original_image], args.width, args.height)]
                /\ pc' = "infer"
                /\ error' = error
    /\ UNCHANGED <<argv, args, model, original_image, frame, results, tm, cap,
                   window, file, stdout, keyPending, hist>>

\* results = model.infer(image)
ImageInfer ==
    /\ pc = "infer"
    /\ \E out \in DetectorOutputs :
          /\ results' = out
          /\ hist' = [hist EXCEPT !.inferInput = heap[image], !.detected = out,
                                  !.nInfer = @ + 1]
    /\ pc' = "rescale"
    /\ UNCHANGED <<argv, error, args, model, heap, original_image, image, frame,
                   scaleWidth, scaleHeight, tm, cap, window, file, stdout,
                   keyPending>>

\* Scale the results bounding box.
ImageRescale ==
    /\ pc = "rescale"
    /\ results' = Rescale(results, scaleWidth, scaleHeight)
    /\ hist' = [hist EXCEPT !.nRescale = @ + 1]
    /\ pc' = "print"
    /\ UNCHANGED <<argv, error, args, model, heap, original_image, image, frame,
                   scaleWidth, scaleHeight, tm, cap, window, file, stdout,
                   keyPending>>

Min(a, b) == IF a < b THEN a ELSE b

\* The lines of the "Print results" block: the count, then one line for each
\* pair of zip(results[0], results[1]).
PrintedResults(res) ==
    <<[line |-> "texts detected", n |-> Len(res.boxes)]>> \o
    [k \in 1..Min(Len(res.boxes), Len(res.scores)) |->
        [line |-> "box", idx |-> k - 1, bbox |-> res.boxes[k],
         score |-> res.scores[k]]]

ImagePrint ==
    /\ pc = "print"
    /\ stdout' = stdout \o PrintedResults(results)
    /\ pc' = "render"
    /\ UNCHANGED <<argv, error, args, model, heap, original_image, image, frame,
                   scaleWidth, scaleHeight, results, tm, cap, window, file,
                   keyPending, hist>>

\* The slip of drawing on the resized image.
ImageRenderResized ==
    /\ pc = "render"
    /\ LET v == visualize(heap, image, results, <<>>)
       IN  /\ heap' = v.heap
           /\ original_image' = v.output
    /\ hist' = [hist EXCEPT !.renderIn = heap[image],
                            !.renderRef = image, !.nRender = @ + 1]
    /\ pc' = "save"
    /\ UNCHANGED <<argv, error, args, model, image, frame, scaleWidth,
                   scaleHeight, results, tm, cap, window, file, stdout,
                   keyPending>>

\* original_image = visualize(original_image, results)
ImageRender ==
    /\ pc = "render"
    /\ LET v == visualize(heap, original_image, results, <<>>)
       IN  /\ heap' = v.heap
           /\ original_image' = v.output
    /\ hist' = [hist EXCEPT !.renderIn = heap[original_image],
                            !.renderRef = original_image, !.nRender = @ + 1]
    /\ pc' = "save"
    /\ UNCHANGED <<argv, error, args, model, image, frame, scaleWidth,
                   scaleHeight, results, tm, cap, window, file, stdout,
                   keyPending>>

\* if args.save: print, cv.imwrite('result.jpg', original_image)
ImageSave ==
    /\ pc = "save"
    /\ IF Truthy(args.save)
       THEN /\ stdout' = Append(stdout, [line |-> "Resutls saved to result.jpg"])
            /\ file' = heap[original_image]
            /\ hist' = [hist EXCEPT !.nWrite = @ + 1]
       ELSE UNCHANGED <<stdout, file, hist>>
    /\ pc' = "show"
    /\ UNCHANGED <<argv, error, args, model, heap, original_image, image, frame,
                   scaleWidth, scaleHeight, results, tm, cap, window, keyPending>>

\* if args.vis: cv.namedWindow, cv.imshow, and the program enters cv.waitKey(0)
ImageShow ==
    /\ pc = "show"
    /\ IF args.vis
       THEN /\ window' = [title |-> args.input, shown |-> heap[original_image]]
            /\ hist' = [hist EXCEPT !.nShow = @ + 1]
            /\ pc' = "waitKey"
       ELSE /\ pc' = "done"
            /\ UNCHANGED <<window, hist>>
    /\ UNCHANGED <<argv, error, args, model, heap, original_image, image, frame,
                   scaleWidth, scaleHeight, results, tm, cap, file, stdout,
                   keyPending>>

\* The slip of a wait that returns without a key (waitKey(1) for waitKey(0)).
ImageWaitKeyNoBlock ==
    /\ pc = "waitKey"
    /\ keyPending' = FALSE
    /\ hist' = [hist EXCEPT !.key = "wait"]
    /\ pc' = "done"
    /\ UNCHANGED <<argv, error, args, model, heap, original_image, image, frame,
                   scaleWidth, scaleHeight, results, tm, cap, window, file,
                   stdout>>

\* cv.waitKey(0) returns when a key has been pressed, and the program ends.
ImageWaitKey ==
    /\ pc = "waitKey"
    /\ keyPending
    /\ keyPending' = FALSE
    /\ hist' = [hist EXCEPT !.key = "wait"]
    /\ pc' = "done"
    /\ UNCHANGED <<argv, error, args, model, heap, original_image, image, frame,
                   scaleWidth, scaleHeight, results, tm, cap, window, file,
                   stdout>>

\* The user presses a key in the window the program has opened.
PressKey ==
    /\ pc \notin {"done", "error"}
    /\ window # NoWindow
    /\ ~keyPending
    /\ keyPending' = TRUE
    /\ UNCHANGED <<argv, pc, error, args, model, heap, original_image, image,
                   frame, scaleWidth, scaleHeight, results, tm, cap, window,
                   file, stdout, hist>>

(* ------------------------------ stream mode --------------------------- *)

\* cap = cv.VideoCapture(0); tm = cv.TickMeter()
OpenCapture ==
    /\ pc = "open"
    /\ cap' = [opened |-> TRUE, read |-> 0]
    /\ tm' = [counter |-> 0, sumTime |-> 0]
    /\ pc' = "poll"
    /\ UNCHANGED <<argv, error, args, model, heap, original_image, image, frame,
                   scaleWidth, scaleHeight, results, window, file, stdout,
                   keyPending, hist>>

\* The slip of a poll whose result is dropped: the key is taken, the loop
\* goes on.
PollKeyIgnored ==
    /\ pc = "poll"
    /\ keyPending' = FALSE
    /\ pc' = "read"
    /\ UNCHANGED <<argv, error, args, model, heap, original_image, image, frame,
                   scaleWidth, scaleHeight, results, tm, cap, window, file,
                   stdout, hist>>

\* while cv.waitKey(1) < 0: the poll returns a pressed key, which ends the
\* loop and the program, or -1.
PollKey ==
    /\ pc = "poll"
    /\ IF keyPending
       THEN /\ keyPending' = FALSE
            /\ hist' = [hist EXCEPT !.key = "poll"]
            /\ pc' = "done"
       ELSE /\ pc' = "read"
            /\ UNCHANGED <<keyPending, hist>>
    /\ UNCHANGED <<argv, error, args, model, heap, original_image, image, frame,
                   scaleWidth, scaleHeight, results, tm, cap, window, file,
                   stdout>>

\* The count c of a step once the oldest frame counted is forgotten.
Forget(c) == IF c > 0 THEN c - 1 ELSE 0

\* The history once the frame img is acquired.
Acquired(h, img) ==
    IF h.nRead < MaxFrames
    THEN [h EXCEPT !.acquired = img, !.nRead = @ + 1]
    ELSE [h EXCEPT !.acquired = img, !.nInfer = Forget(@),
                   !.nRescale = Forget(@), !.nRender = Forget(@),
                   !.nShow = Forget(@)]

\* The number of the frame the capture device delivers next.
NextFrame == (heap["read"].content.index % MaxFrames) + 1

\* The slip of `continue` for `break`: a failed read is tried again.
ReadFrameRetry ==
    /\ pc = "read"
    /\ \/ /\ \E sz \in ImageSizes :
                LET img == Image(sz[1], sz[2], Content("camera", NextFrame))
                IN  /\ heap' = [heap EXCEPT !["read"] = img]
                    /\ hist' = Acquired(hist, img)
          /\ original_image' = "read"
          /\ cap' = [cap EXCEPT !.read = IF @ < MaxFrames THEN @ + 1 ELSE @]
          /\ pc' = "s_prepare"
          /\ stdout' = stdout
       \/ /\ original_image' = None
          /\ stdout' = Append(stdout, [line |-> "No frames grabbed!"])
          /\ hist' = [hist EXCEPT !.failed = TRUE]
          /\ pc' = IF hist.failed THEN "done" ELSE "poll"
          /\ UNCHANGED <<heap, cap>>
    /\ UNCHANGED <<argv, error, args, model, image, frame, scaleWidth,
                   scaleHeight, results, tm, window, file, keyPending>>

\* hasFrame, original_image = cap.read(); if not hasFrame: print, break.
\* Any read may deliver a frame and any read may fail.
ReadFrame ==
    /\ pc = "read"
    /\ \/ /\ \E sz \in ImageSizes :
                LET img == Image(sz[1], sz[2], Content("camera", NextFrame))
                IN  /\ heap' = [heap EXCEPT !["read"] = img]
                    /\ hist' = Acquired(hist, img)
          /\ original_image' = "read"
          /\ cap' = [cap EXCEPT !.read = IF @ < MaxFrames THEN @ + 1 ELSE @]
          /\ pc' = "s_prepare"
          /\ stdout' = stdout
       \/ /\ original_image' = None
          /\ stdout' = Append(stdout, [line |-> "No frames grabbed!"])
          /\ hist' = [hist EXCEPT !.failed = TRUE]
          /\ pc' = "done"
          /\ UNCHANGED <<heap, cap>>
    /\ UNCHANGED <<argv, error, args, model, image, frame, scaleWidth,
                   scaleHeight, results, tm, window, file, keyPending>>

\* The slip of computing the scale factors for the first frame only.
StreamPrepareCached ==
    /\ pc = "s_prepare"
    /\ IF cap.read = 1
       THEN /\ scaleHeight' = ScaleOf(heap[original_image].h, args.height)
            /\ scaleWidth' = ScaleOf(heap[original_image].w, args.width)
       ELSE UNCHANGED <<scaleWidth, scaleHeight>>
    /\ frame' = "resized"
    /\ heap' = [heap EXCEPT !["resized"] =
                  Resize(heap[original_image], args.width, args.height)]
    /\ pc' = "s_infer"
    /\ UNCHANGED <<argv, error, args, model, original_image, image, results, tm,
                   cap, window, file, stdout, keyPending, hist>>

\* The frame's shape, the two scale factors, and
\* frame = cv.resize(original_image, [args.width, args.height]).
StreamPrepare ==
    /\ pc = "s_prepare"
    /\ LET original_w == heap[original_image].w
           original_h == heap[original_image].h
       IN  /\ scaleHeight' = ScaleOf(original_h, args.height)
           /\ scaleWidth' = ScaleOf(original_w, args.width)
    /\ frame' = "resized"
    /\ heap' = [heap EXCEPT !["resized"] =
                  Resize(heap[original_image], args.width, args.height)]
    /\ pc' = "s_infer"
    /\ UNCHANGED <<argv, error, args, model, original_image, image, results, tm,
                   cap, window, file, stdout, keyPending, hist>>

\* tm.start(); results = model.infer(frame); tm.stop()
StreamInfer ==
    /\ pc = "s_infer"
    /\ \E out \in DetectorOutputs :
          /\ results' = out
          /\ hist' = [hist EXCEPT !.inferInput = heap[frame], !.detected = out,
                                  !.nInfer = @ + 1]
    /\ \E ms \in Durations :
          tm' = [counter |-> tm.counter + 1, sumTime |-> tm.sumTime + ms]
    /\ pc' = "s_rescale"
    /\ UNCHANGED <<argv, error, args, model, heap, original_image, image, frame,
                   scaleWidth, scaleHeight, cap, window, file, stdout,
                   keyPending>>

\* Scale the results bounding box.
StreamRescale ==
    /\ pc = "s_rescale"
    /\ results' = Rescale(results, scaleWidth, scaleHeight)
    /\ hist' = [hist EXCEPT !.nRescale = @ + 1]
    /\ pc' = "s_render"
    /\ UNCHANGED <<argv, error, args, model, heap, original_image, image, frame,
                   scaleWidth, scaleHeight, tm, cap, window, file, stdout,
                   keyPending>>

\* tm.getFPS(): the calls counted per second of the time summed.
GetFPS(t) == IF t.sumTime = 0 THEN IntToRat(0) ELSE Rat(t.counter * 1000, t.sumTime)

\* original_image = visualize(original_image, results, fps=tm.getFPS())
StreamRender ==
    /\ pc = "s_render"
    /\ LET v == visualize(heap, original_image, results, <<GetFPS(tm)>>)
       IN  /\ heap' = v.heap
           /\ original_image' = v.output
    /\ hist' = [hist EXCEPT !.renderIn = heap[original_image],
                            !.renderRef = original_image, !.nRender = @ + 1]
    /\ pc' = "s_show"
    /\ UNCHANGED <<argv, error, args, model, image, frame, scaleWidth,
                   scaleHeight, results, tm, cap, window, file, stdout,
                   keyPending>>

\* cv.imshow('{} Demo'.format(model.name), original_image); tm.reset()
StreamShow ==
    /\ pc = "s_show"
    /\ window' = [title |-> "DB Demo", shown |-> heap[original_image]]
    /\ tm' = [counter |-> 0, sumTime |-> 0]
    /\ hist' = [hist EXCEPT !.nShow = @ + 1]
    /\ pc' = "poll"
    /\ UNCHANGED <<argv, error, args, model, heap, original_image, image, frame,
                   scaleWidth, scaleHeight, results, cap, file, stdout,
                   keyPending>>

(* --------------------------- specifications --------------------------- *)

\* The program's own steps.
Step ==
    \/ TryTimVX
    \/ ParseArgs
    \/ InstantiateDB
    \/ Imread
    \/ ImagePrepare
    \/ ImageInfer
    \/ ImageRescale
    \/ ImagePrint
    \/ ImageRender
    \/ ImageSave
    \/ ImageShow
    \/ ImageWaitKey
    \/ OpenCapture
    \/ PollKey
    \/ ReadFrame
    \/ StreamPrepare
    \/ StreamInfer
    \/ StreamRescale
    \/ StreamRender
    \/ StreamShow

Next == Step \/ PressKey

Spec == Init /\ [][Next]_vars

\* The steps a run without --input can take.
StreamStep ==
    \/ TryTimVX
    \/ ParseArgs
    \/ InstantiateDB
    \/ OpenCapture
    \/ PollKey
    \/ ReadFrame
    \/ StreamPrepare
    \/ StreamInfer
    \/ StreamRescale
    \/ StreamRender
    \/ StreamShow

StreamNext == StreamStep \/ PressKey

\* Stream mode alone, for what it does in the end.  The program is one thread
\* that runs whenever it can: a step that is possible is eventually taken.
\* No call of the loop blocks (the poll waits a millisecond at most).
StreamSpec == StreamInit /\ [][StreamNext]_vars /\ WF_vars(StreamStep)

(* ------------------------------ properties ---------------------------- *)

ImageMode == args.input # None /\ pc \notin {"start", "parse", "main"}

StreamMode ==
    args.input = None /\ pc \notin {"start", "parse", "main", "error"}

\* visualize has returned for the image acquired last.
Rendered ==
    /\ hist.nRender > 0
    /\ hist.nRender = hist.nRead
    /\ original_image # None

\* The points the renderer was handed: those of the polyline drawn last.
HandedPts ==
    LET m == heap[original_image].marks IN m[Len(m)].pts

\* v is exactly x * num / den.
IsProduct(v, x, num, den) == v * den = x * num

\* num / den is a binary fraction: a double holds it exactly.
IsBinaryFraction(num, den) ==
    LET d == den \div GCD(num, den) IN d = Pow2(FloorLog2(d, 1))

\* v is what an int32 element keeps of the double product of x and
\* num / den (num, den > 0): the integer part, towards zero, of
\* x * num / den; or, when x * num / den is a whole number and num / den no
\* binary fraction, possibly the whole number next to it towards zero.
IsStoredProduct(v, x, num, den) ==
    LET P == Abs(x) * num
        m == Abs(v)
    IN  /\ x >= 0 => v >= 0
        /\ x <= 0 => v <= 0
        /\ m * den <= P
        /\ \/ P < (m + 1) * den
           \/ P = (m + 1) * den /\ ~IsBinaryFraction(num, den)

\* Corner q is corner p of the detector scaled by the factors of the image
\* acquired last, exactly.
ScaledExactly(q, p) ==
    /\ IsProduct(q[1], p[1], hist.acquired.w, args.width)
    /\ IsProduct(q[2], p[2], hist.acquired.h, args.height)

\* The same, as the detector's int32 array keeps it.
ScaledAsStored(q, p) ==
    /\ IsStoredProduct(q[1], p[1], hist.acquired.w, args.width)
    /\ IsStoredProduct(q[2], p[2], hist.acquired.h, args.height)

\* C1 as stated: every point handed to the renderer is the detector's point
\* with x multiplied by original width / model width and y by original
\* height / model height, exactly, with no rounding.
C1_ExactRescale ==
    Rendered =>
        /\ Len(HandedPts) = Len(hist.detected.boxes)
        /\ \A i \in 1..Len(HandedPts) : \A j \in 1..4 :
              ScaledExactly(HandedPts[i][j], hist.detected.boxes[i][j])

\* C1, amended: in both modes every point handed to the renderer is the
\* detector's point with x multiplied by scaleWidth and y by scaleHeight, as
\* the detector's int32 array keeps the double product: cut to its integer
\* part, towards zero.  That is the integer part of the exact product, except
\* that a product that is exactly a whole number, by a factor that is no
\* binary fraction, may be kept as the whole number next to it towards zero.
\* Axes are not swapped, nothing is clamped, and with scale factors (1, 1)
\* every point is unchanged.
C1_StoredRescale ==
    Rendered =>
        /\ Len(HandedPts) = Len(hist.detected.boxes)
        /\ \A i \in 1..Len(HandedPts) : \A j \in 1..4 :
              ScaledAsStored(HandedPts[i][j], hist.detected.boxes[i][j])
        /\ (hist.acquired.w = args.width /\ hist.acquired.h = args.height)
              => HandedPts = hist.detected.boxes

\* Stream mode, and a box with a negative x cut towards zero and with an x
\* whose exact product is a whole number of which one less is kept.
C1_Witness ==
    /\ StreamMode
    /\ Rendered
    /\ \E i \in 1..Len(HandedPts) :
          /\ \E j \in 1..4 :
                /\ hist.detected.boxes[i][j][1] < 0
                /\ ~ScaledExactly(HandedPts[i][j], hist.detected.boxes[i][j])
                /\ HandedPts[i][j][1] = 0
          /\ \E j \in 1..4 :
                /\ hist.detected.boxes[i][j][1] > 0
                /\ (HandedPts[i][j][1] + 1) * args.width
                      = hist.detected.boxes[i][j][1] * hist.acquired.w

\* The lines on stdout before the run's own: the warning of the module's
\* start, if the build printed it.
Preamble ==
    IF stdout # <<>> /\ stdout[1].line = TimVXWarning.line THEN 1 ELSE 0

\* `results` holds the rescaled boxes of the detection made for the image
\* acquired last.
Rescaled ==
    /\ hist.nInfer > 0
    /\ hist.nInfer = hist.nRead
    /\ hist.nRescale = hist.nInfer

\* C2: after the rescale step the box sequence has the length the detector
\* returned, box i is the detector's box i rescaled, corner by corner in the
\* same order, the scores are unchanged, and index i of the boxes pairs with
\* index i of the scores (also in the lines image mode prints).
C2_ShapePreserved ==
    /\ Rescaled =>
         /\ Len(results.boxes) = Len(hist.detected.boxes)
         /\ \A i \in 1..Len(results.boxes) :
               /\ DOMAIN results.boxes[i] = 1..4
               /\ \A j \in 1..4 :
                     ScaledAsStored(results.boxes[i][j],
                                    hist.detected.boxes[i][j])
         /\ results.scores = hist.detected.scores
         /\ Len(results.scores) = Len(results.boxes)
    /\ (ImageMode /\ pc \in {"render", "save", "show", "waitKey", "done"}) =>
         /\ Len(stdout) >= Preamble + 1 + Len(hist.detected.boxes)
         /\ stdout[Preamble + 1].line = "texts detected"
         /\ stdout[Preamble + 1].n = Len(hist.detected.boxes)
         /\ \A k \in 1..Len(hist.detected.boxes) :
               /\ stdout[Preamble + k + 1].idx = k - 1
               /\ stdout[Preamble + k + 1].bbox = results.boxes[k]
               /\ stdout[Preamble + k + 1].score = hist.detected.scores[k]

\* Image mode has printed two boxes that the rescale step changed, after the
\* warning of a build without TIM-VX.
C2_Witness ==
    /\ ImageMode
    /\ pc = "render"
    /\ Preamble = 1
    /\ Len(stdout) = 4
    /\ Len(results.boxes) = 2
    /\ results.boxes[1] # hist.detected.boxes[1]
    /\ results.boxes[2] # hist.detected.boxes[2]

\* C3: in stream mode a failed acquisition, the first one included, ends the
\* loop at once: the program is in its terminal state, the detector was run,
\* and boxes were rescaled, rendered and shown, only for the frames acquired
\* before, and nothing happens after the failure (no retry, no next frame).
C3_FailedReadEndsLoop ==
    /\ [](hist.failed =>
            /\ StreamMode
            /\ pc = "done"
            /\ cap.read = hist.nRead
            /\ hist.nInfer = hist.nRead
            /\ hist.nRescale = hist.nRead
            /\ hist.nRender = hist.nRead
            /\ hist.nShow = hist.nRead
            /\ hist.nRead = 0 => window = NoWindow)
    /\ [][hist.failed => UNCHANGED vars]_vars

\* The very first acquisition failed, on a build without TIM-VX.
C3_Witness ==
    /\ hist.failed
    /\ hist.nRead = 0
    /\ hist.nInfer = 0
    /\ stdout = <<TimVXWarning, [line |-> "No frames grabbed!"]>>

\* C4 as stated: result.jpg is written exactly when the run is in image mode
\* and the save flag is true; with the flag omitted or given as False an
\* image-mode run writes nothing, and a stream-mode run never writes.
C4_SavedIffFlag ==
    /\ StreamMode => (hist.nWrite = 0 /\ file = NoObject)
    /\ argv.save \in {<<>>, <<"False">>} => (hist.nWrite = 0 /\ file = NoObject)
    /\ (ImageMode /\ pc \in {"show", "waitKey", "done"} /\ argv.save = <<"True">>)
         => (hist.nWrite = 1 /\ file # NoObject)

\* The input path of an image-mode run does not resolve to a decodable image.
Undecodable == args.input # None /\ args.input \notin Decodable

\* C5 as stated: such a run fails with an IOError at the load step, before
\* the detector is invoked, and nothing is saved or displayed.
C5_IOErrorAtLoad ==
    (Undecodable /\ pc \notin {"start", "parse", "main", "imread"}) =>
        /\ pc = "error"
        /\ error = "IOError"
        /\ hist.nInfer = 0
        /\ file = NoObject
        /\ window = NoWindow

\* C5, amended: the load step itself raises nothing and yields no image; the
\* run fails with an AttributeError at the next step, when the image's shape
\* is read.  It ends in that error state before the detector is invoked, and
\* nothing is saved or displayed.
C5_AttributeErrorAfterLoad ==
    /\ (Undecodable /\ pc = "prepare") =>
          (original_image = None /\ error = None)
    /\ (Undecodable /\ pc \notin {"start", "parse", "main", "imread", "prepare"}) =>
          /\ pc = "error"
          /\ error = "AttributeError"
          /\ hist.nInfer = 0
          /\ hist.nWrite = 0
          /\ file = NoObject
          /\ window = NoWindow
    /\ error = "AttributeError" => Undecodable

\* A run on a missing file, with --save True, has ended in the error state.
C5_Witness ==
    /\ Undecodable
    /\ argv.save = <<"True">>
    /\ pc = "error"
    /\ error = "AttributeError"

\* C6: visualize does not change the image it is given: once it has returned,
\* that image is what it was before the call, and everything drawn (the FPS
\* text, the polylines) is on another image, a copy, which is returned.
C6_RenderKeepsInput ==
    (hist.nRender > 0 /\ hist.nRender = hist.nRead) =>
        /\ heap[hist.renderRef] = hist.renderIn
        /\ original_image # None =>
              LET out == heap[original_image]
                  k   == Len(hist.renderIn.marks)
              IN  /\ original_image # hist.renderRef
                  /\ out.content = hist.renderIn.content
                  /\ Len(out.marks) > k
                  /\ SubSeq(out.marks, 1, k) = hist.renderIn.marks
                  /\ out.marks[Len(out.marks)].op = "polylines"

\* Stream mode: the FPS text and a box have been drawn.
C6_Witness ==
    /\ StreamMode
    /\ pc = "s_show"
    /\ Len(results.boxes) >= 1
    /\ Len(heap[original_image].marks) = 2
    /\ heap[original_image].marks[1].op = "putText"

\* C7: image mode runs the detector on a copy resized to the model's width
\* and height, and renders, saves and displays the original, unresized
\* frame: the image written to result.jpg has the original's size.
C7_OriginalKeptApart ==
    ImageMode =>
        /\ hist.nInfer > 0 =>
              /\ hist.inferInput.w = args.width
              /\ hist.inferInput.h = args.height
              /\ hist.inferInput.content = hist.acquired.content
              /\ heap["read"] = hist.acquired
        /\ hist.nRender > 0 =>
              /\ hist.renderIn = hist.acquired
              /\ heap[original_image].w = hist.acquired.w
              /\ heap[original_image].h = hist.acquired.h
        /\ file # NoObject =>
              /\ file = heap[original_image]
              /\ file.w = hist.acquired.w
              /\ file.h = hist.acquired.h
        /\ window # NoWindow =>
              /\ window.shown = heap[original_image]
              /\ window.shown.w = hist.acquired.w
              /\ window.shown.h = hist.acquired.h

\* result.jpg was written, of a size that is not the model's.
C7_Witness ==
    /\ ImageMode
    /\ pc = "done"
    /\ file # NoObject
    /\ file.w # args.width
    /\ file.h # args.height

\* C8: image mode, after rendering and saving: with the visualization flag
\* true the rendered frame is displayed and the run does not end until a key
\* press arrives; with the flag false it ends without displaying anything
\* and without waiting for a key.
C8_ShowAndWait ==
    /\ [](ImageMode /\ pc \in {"waitKey", "done"} =>
            IF args.vis
            THEN /\ window = [title |-> args.input, shown |-> heap[original_image]]
                 /\ hist.nShow = 1
                 /\ pc = "done" => hist.key = "wait"
            ELSE /\ pc = "done"
                 /\ window = NoWindow
                 /\ hist.nShow = 0
                 /\ hist.key = "none")
    /\ [][(pc = "show" /\ pc' # pc) =>
            /\ args.vis => pc' = "waitKey"
            /\ ~args.vis => (pc' = "done" /\ keyPending' = keyPending)]_vars
    /\ [][(pc = "waitKey" /\ pc' # pc) =>
            (keyPending /\ ~keyPending' /\ pc' = "done")]_vars

\* The window was shown, a key arrived, and the run has ended.
C8_Witness ==
    /\ ImageMode
    /\ pc = "done"
    /\ args.vis
    /\ window # NoWindow
    /\ hist.key = "wait"

\* r is the ratio num / den.
IsRatio(r, num, den) == r.n * den = num * r.d

\* C9: stream mode handles one frame at a time, in the order acquire, detect,
\* rescale, render, show: the detector runs once for each frame acquired, on
\* that frame resized; the scale factors and the detection used for a frame
\* are the ones of that frame; the FPS drawn is that of its one detector
\* call; and no frame is acquired before the one before it has been shown.
C9_OneFrameAtATime ==
    /\ [](StreamMode =>
            /\ cap.read = hist.nRead
            /\ hist.nRead >= hist.nInfer /\ hist.nInfer >= hist.nRescale
            /\ hist.nRescale >= hist.nRender /\ hist.nRender >= hist.nShow
            /\ hist.nShow >= hist.nRead - 1
            /\ pc \in {"poll", "read", "done"} => hist.nShow = hist.nRead
            /\ pc \in {"s_infer", "s_rescale", "s_render", "s_show"} =>
                  /\ IsRatio(scaleWidth, hist.acquired.w, args.width)
                  /\ IsRatio(scaleHeight, hist.acquired.h, args.height)
                  /\ heap[frame].content = hist.acquired.content
            /\ (hist.nInfer > 0 /\ hist.nInfer = hist.nRead) =>
                  /\ hist.inferInput.content = hist.acquired.content
                  /\ hist.inferInput.w = args.width
                  /\ hist.inferInput.h = args.height
            /\ (hist.nShow > 0 /\ hist.nShow = hist.nRead) =>
                  LET m == window.shown.marks
                  IN  /\ window.shown.content = hist.acquired.content
                      /\ window.shown.w = hist.acquired.w
                      /\ window.shown.h = hist.acquired.h
                      /\ Len(m) = 2
                      /\ \E ms \in Durations :
                            m[1].text.hundredths * ms = 100000
                      /\ Len(m[2].pts) = Len(hist.detected.boxes)
                      /\ \A i \in 1..Len(m[2].pts) : \A j \in 1..4 :
                            ScaledAsStored(m[2].pts[i][j],
                                           hist.detected.boxes[i][j]))
    /\ [][hist'.acquired # hist.acquired => hist.nShow = hist.nRead]_vars
    /\ [][hist.nInfer' > hist.nInfer => hist.nInfer' = hist.nRead]_vars
    /\ [][hist.nShow' > hist.nShow => hist.nRender = hist.nRead]_vars

\* The second frame, with a box in it, has been shown.
C9_Witness ==
    /\ StreamMode
    /\ pc = "poll"
    /\ hist.nShow = 2
    /\ Len(results.boxes) >= 1
    /\ window.shown.content = Content("camera", 2)

\* C10: the stream loop is in its terminal state if and only if the key poll
\* got a key press or an acquisition failed.  A poll that finds a key press
\* ends the loop, and after it no frame is acquired or sent to the detector;
\* a poll that finds none goes on to acquire.  While the loop has not ended
\* it keeps coming to the next acquisition, frame after frame without end if
\* no key is pressed and no acquisition fails.  Once a key is pressed or an
\* acquisition has failed, the runner comes to the end.
C10_StreamTermination ==
    /\ [](StreamMode => (pc = "done" <=> (hist.key = "poll" \/ hist.failed)))
    /\ [][(StreamMode /\ pc = "poll" /\ pc' # pc) =>
            /\ keyPending => (pc' = "done" /\ hist'.key = "poll")
            /\ ~keyPending => pc' = "read"]_vars
    /\ [][(StreamMode /\ hist.key = "poll") =>
            (hist' = hist /\ cap' = cap /\ heap' = heap)]_vars
    /\ [](StreamMode /\ pc # "done" => <>(pc = "read" \/ pc = "done"))
    /\ [](StreamMode /\ (keyPending \/ hist.failed) => <>(pc = "done"))

\* More frames than are counted were shown, the cycle of frame numbers has
\* started again, a key was pressed, and the poll ended the loop.
C10_Witness ==
    /\ StreamMode
    /\ pc = "done"
    /\ hist.key = "poll"
    /\ ~hist.failed
    /\ hist.nShow = MaxFrames
    /\ window.shown.content = Content("camera", 1)

====
